---- MODULE Spec2Model ----
(***************************************************************************)
(* Othello / Reversi engine of the Reversi-Game sub-project: the board     *)
(* functions of logic.py, the gym environments (env.py, reversi_env.py)    *)
(* and the pygame driving loop of main.py.                                 *)
(*                                                                         *)
(* A board is a sequence of BOARD_SIZE rows, each a sequence of BOARD_SIZE  *)
(* values of {-1, 0, 1} (WHITE, empty, BLACK), as the numpy int8 array of  *)
(* the source; At(b, <<row, col>>) is board[row, col].                     *)
(***************************************************************************)
EXTENDS Integers, Sequences, FiniteSets, TLC

VARIABLES
    prog,            \* the program running: "logic", "gym", "othello", "ui",
                     \* "history", "coords", "main", "mono"
    draws,           \* what the input sources choose from: "cells" (the
                     \* input cells) or "legal" (the legal moves)
    choice,          \* main(): the menu choice "1".."4" ("-" outside main)
    model,           \* main(): TRUE iff a trained model object is loaded
    pc,              \* position of the running program
    board,           \* the live board (board / self.board)
    current_player,  \* the player to move (current_player / self.current_player)
    running,         \* main(): the flag of the inner game loop
    pre,             \* the board as it was when place_disc was last entered
    call,            \* arguments of the last place_disc call of this game
    moves,           \* number of place_disc calls made in this game
    ret,             \* what the last operation returned
    total_scores,    \* constants.py: the wins counted by end_screen
    move_history,    \* main(): MoveHistory.history, entries (board, player,
                     \* row, col)
    tally,           \* add_move calls and successful undo calls made on
                     \* move_history since it was created or cleared
    heatmap_surface,     \* main(): the cached heatmap surface, or None
    heatmap_board_hash   \* main(): board.tobytes() of that heatmap, or None

vars ==
    <<prog, draws, choice, model, pc, board, current_player, running, pre, call,
      moves, ret, total_scores, move_history, tally, heatmap_surface,
      heatmap_board_hash>>

\* The locals of main() that the undo and heatmap keys work on.
main_locals == <<move_history, tally, heatmap_surface, heatmap_board_hash>>

\* Python's None, where a tuple or a byte string is expected.
None == << >>
NoTally == [add |-> 0, undo |-> 0]

----------------------------------------------------------------------------
(* constants.py *)

BOARD_SIZE == 8
CELL_SIZE == 80
WIDTH == CELL_SIZE * BOARD_SIZE
HEIGHT == CELL_SIZE * BOARD_SIZE + 60

\* 1 is a black disc / the black player, -1 a white one, 0 an empty cell.
Players == {1, -1}

Rows == 0 .. (BOARD_SIZE - 1)
Cells == Rows \X Rows

InBounds(r, c) == 0 <= r /\ r < BOARD_SIZE /\ 0 <= c /\ c < BOARD_SIZE

\* board[row, col] for the cell x = <<row, col>> (rows and columns from 0).
At(b, x) == b[x[1] + 1][x[2] + 1]

\* The array whose cell x holds f(x).
MakeBoard(f(_)) ==
    [i \in 1 .. BOARD_SIZE |-> [j \in 1 .. BOARD_SIZE |-> f(<<i - 1, j - 1>>)]]

----------------------------------------------------------------------------
(* logic.py *)

directions ==
    << <<-1, -1>>, <<-1, 0>>, <<-1, 1>>, <<0, -1>>,
       <<0, 1>>, <<1, -1>>, <<1, 0>>, <<1, 1>> >>

\* init_board with the colours of the two diagonals exchanged.
init_board_swapped ==
    LET mid == BOARD_SIZE \div 2
        v(x) == IF x = <<mid - 1, mid - 1>> \/ x = <<mid, mid>> THEN 1
                ELSE IF x = <<mid - 1, mid>> \/ x = <<mid, mid - 1>> THEN -1
                ELSE 0
    IN  MakeBoard(v)

init_board ==
    LET mid == BOARD_SIZE \div 2
        v(x) == IF x = <<mid - 1, mid - 1>> \/ x = <<mid, mid>> THEN -1
                ELSE IF x = <<mid - 1, mid>> \/ x = <<mid, mid - 1>> THEN 1
                ELSE 0
    IN  MakeBoard(v)

\* ValidWalk without the found_opponent test: a disc of player next to the
\* target is enough.
RECURSIVE ValidWalkAdjacent(_, _, _, _, _, _, _)
ValidWalkAdjacent(b, r, c, dr, dc, player, found_opponent) ==
    IF ~InBounds(r, c) THEN FALSE
    ELSE IF At(b, <<r, c>>) = -player
         THEN ValidWalkAdjacent(b, r + dr, c + dc, dr, dc, player, TRUE)
    ELSE IF At(b, <<r, c>>) = player THEN TRUE
    ELSE FALSE

\* The while loop of is_valid_move for one direction, entered at (r, c):
\* TRUE iff the loop executes "return True".
RECURSIVE ValidWalk(_, _, _, _, _, _, _)
ValidWalk(b, r, c, dr, dc, player, found_opponent) ==
    IF ~InBounds(r, c) THEN FALSE
    ELSE IF At(b, <<r, c>>) = -player
         THEN ValidWalk(b, r + dr, c + dc, dr, dc, player, TRUE)
    ELSE IF At(b, <<r, c>>) = player /\ found_opponent THEN TRUE
    ELSE FALSE

\* is_valid_move without the test that the target cell is empty.
is_valid_move_occupied(b, row, col, player) ==
    \E i \in 1 .. Len(directions) :
        ValidWalk(b, row + directions[i][1], col + directions[i][2],
                  directions[i][1], directions[i][2], player, FALSE)

is_valid_move(b, row, col, player) ==
    IF At(b, <<row, col>>) # 0 THEN FALSE
    ELSE \E i \in 1 .. Len(directions) :
            ValidWalk(b, row + directions[i][1], col + directions[i][2],
                      directions[i][1], directions[i][2], player, FALSE)

\* get_valid_moves scanning the rows from row 1 on.
get_valid_moves_from_row_one(b, player) ==
    LET S == {k \in BOARD_SIZE .. (BOARD_SIZE * BOARD_SIZE - 1) :
                 is_valid_move(b, k \div BOARD_SIZE, k % BOARD_SIZE, player)}
        nth(i) == CHOOSE k \in S : Cardinality({j \in S : j < k}) = i - 1
    IN  [i \in 1 .. Cardinality(S) |->
            <<nth(i) \div BOARD_SIZE, nth(i) % BOARD_SIZE>>]

\* get_valid_moves: the valid cells in the order of the scan, which is the
\* order of the row-major index r * BOARD_SIZE + c.
get_valid_moves(b, player) ==
    LET S == {k \in 0 .. (BOARD_SIZE * BOARD_SIZE - 1) :
                 is_valid_move(b, k \div BOARD_SIZE, k % BOARD_SIZE, player)}
        nth(i) == CHOOSE k \in S : Cardinality({j \in S : j < k}) = i - 1
    IN  [i \in 1 .. Cardinality(S) |->
            <<nth(i) \div BOARD_SIZE, nth(i) % BOARD_SIZE>>]

\* FlipWalk flipping only the first disc of a closed run.
RECURSIVE FlipWalkFirstOnly(_, _, _, _, _, _, _)
FlipWalkFirstOnly(b, r, c, dr, dc, player, to_flip) ==
    IF ~InBounds(r, c) THEN b
    ELSE IF At(b, <<r, c>>) = -player
         THEN FlipWalkFirstOnly(b, r + dr, c + dc, dr, dc, player,
                                Append(to_flip, <<r, c>>))
    ELSE IF At(b, <<r, c>>) = player /\ to_flip # << >>
         THEN [b EXCEPT ![to_flip[1][1] + 1][to_flip[1][2] + 1] = player]
    ELSE b

\* FlipWalk flipping the run collected so far also when the walk ends on an
\* empty cell or leaves the board.
RECURSIVE FlipWalkOpenEnd(_, _, _, _, _, _, _)
FlipWalkOpenEnd(b, r, c, dr, dc, player, to_flip) ==
    IF InBounds(r, c) /\ At(b, <<r, c>>) = -player
    THEN FlipWalkOpenEnd(b, r + dr, c + dc, dr, dc, player,
                         Append(to_flip, <<r, c>>))
    ELSE LET v(x) == IF \E j \in 1 .. Len(to_flip) : to_flip[j] = x
                     THEN player ELSE At(b, x)
         IN  MakeBoard(v)

\* FlipWalk walking on over empty cells instead of leaving the loop.
RECURSIVE FlipWalkOverGap(_, _, _, _, _, _, _)
FlipWalkOverGap(b, r, c, dr, dc, player, to_flip) ==
    IF ~InBounds(r, c) THEN b
    ELSE IF At(b, <<r, c>>) = -player
         THEN FlipWalkOverGap(b, r + dr, c + dc, dr, dc, player,
                              Append(to_flip, <<r, c>>))
    ELSE IF At(b, <<r, c>>) = player /\ to_flip # << >>
         THEN LET v(x) == IF \E j \in 1 .. Len(to_flip) : to_flip[j] = x
                          THEN player ELSE At(b, x)
              IN  MakeBoard(v)
    ELSE IF At(b, <<r, c>>) = 0
         THEN FlipWalkOverGap(b, r + dr, c + dc, dr, dc, player, to_flip)
    ELSE b

\* The while loop of place_disc for one direction, entered at (r, c) with
\* the list to_flip: the board when the loop is left.
RECURSIVE FlipWalk(_, _, _, _, _, _, _)
FlipWalk(b, r, c, dr, dc, player, to_flip) ==
    IF ~InBounds(r, c) THEN b
    ELSE IF At(b, <<r, c>>) = -player
         THEN FlipWalk(b, r + dr, c + dc, dr, dc, player,
                       Append(to_flip, <<r, c>>))
    ELSE IF At(b, <<r, c>>) = player /\ to_flip # << >>
         THEN LET v(x) == IF \E j \in 1 .. Len(to_flip) : to_flip[j] = x
                          THEN player ELSE At(b, x)
              IN  MakeBoard(v)
    ELSE b

\* The for loop of place_disc from direction i on: each direction walks the
\* board as the directions before it left it.
RECURSIVE PlaceFrom(_, _, _, _, _)
PlaceFrom(b, row, col, player, i) ==
    IF i > Len(directions) THEN b
    ELSE PlaceFrom(FlipWalk(b, row + directions[i][1], col + directions[i][2],
                            directions[i][1], directions[i][2], player, << >>),
                   row, col, player, i + 1)

\* place_disc without the loop over the directions.
place_disc_target_only(b, row, col, player) ==
    [b EXCEPT ![row + 1][col + 1] = player]

place_disc(b, row, col, player) ==
    PlaceFrom([b EXCEPT ![row + 1][col + 1] = player], row, col, player, 1)

has_valid_moves(b, player) ==
    \E r \in Rows : \E c \in Rows : is_valid_move(b, r, c, player)

\* count_discs returning (whites, blacks).
count_discs_swapped(b) ==
    << Cardinality({x \in Cells : At(b, x) = -1}),
       Cardinality({x \in Cells : At(b, x) = 1}) >>

count_discs(b) ==
    << Cardinality({x \in Cells : At(b, x) = 1}),
       Cardinality({x \in Cells : At(b, x) = -1}) >>

----------------------------------------------------------------------------
(* heatmap.py: calculate_heuristic_scores *)

position_values ==
    << << 100, -20,  10,   5,   5,  10, -20, 100 >>,
       << -20, -40,  -5,  -5,  -5,  -5, -40, -20 >>,
       <<  10,  -5,   5,   1,   1,   5,  -5,  10 >>,
       <<   5,  -5,   1,   1,   1,   1,  -5,   5 >>,
       <<   5,  -5,   1,   1,   1,   1,  -5,   5 >>,
       <<  10,  -5,   5,   1,   1,   5,  -5,  10 >>,
       << -20, -40,  -5,  -5,  -5,  -5, -40, -20 >>,
       << 100, -20,  10,   5,   5,  10, -20, 100 >> >>

\* SimulateOn with "test_board = board": the move is made on the board given.
SimulateInPlace(b, row, col, player) ==
    [live |-> place_disc(b, row, col, player),
     test |-> place_disc(b, row, col, player)]

\* "test_board = board.copy(); place_disc(test_board, row, col,
\* current_player)": the board given (live) and test_board afterwards.
SimulateOn(b, row, col, player) ==
    [live |-> b, test |-> place_disc(b, row, col, player)]

\* The score of one move, in twentieths ("(score + 50) / 20" is a float):
\* min(10, max(1, (score + 50) / 20)) is between 20 and 200 twentieths.
MoveScore(live, test, row, col, player) ==
    LET flipped == IF player = 1
                   THEN count_discs(test)[1] - count_discs(live)[1] - 1
                   ELSE count_discs(test)[2] - count_discs(live)[2] - 1
        opponent_moves == Len(get_valid_moves(test, -player))
        score == position_values[row + 1][col + 1] + flipped * 2
                 - opponent_moves * 3
    IN  IF score + 50 < 20 THEN 20
        ELSE IF score + 50 > 200 THEN 200
        ELSE score + 50

\* The for loop over valid_moves from index i on: the board given and the
\* scores (as <<row, col, score>>, in the order of insertion) at its end.
RECURSIVE ScoreFrom(_, _, _, _, _)
ScoreFrom(b, player, valid_moves, i, scores) ==
    IF i > Len(valid_moves) THEN [board |-> b, scores |-> scores]
    ELSE LET row == valid_moves[i][1]
             col == valid_moves[i][2]
             sim == SimulateOn(b, row, col, player)
         IN  ScoreFrom(sim.live, player, valid_moves, i + 1,
                       Append(scores,
                              <<row, col,
                                MoveScore(sim.live, sim.test, row, col,
                                          player)>>))

calculate_heuristic_scores(b, current, valid_moves) ==
    ScoreFrom(b, current, valid_moves, 1, << >>)

----------------------------------------------------------------------------
(* Observation of the calls made *)

NoCall == [row |-> -1, col |-> -1, player |-> 0]
NoRet ==
    [op |-> "none", row |-> -1, col |-> -1, player |-> 0, valid |-> FALSE,
     reward |-> 0, terminated |-> FALSE, value |-> << >>]

----------------------------------------------------------------------------
(* The rules of the game, stated on a board without walking it *)

\* The cell k steps from (row, col) in direction d.
RayCell(row, col, d, k) ==
    <<row + k * directions[d][1], col + k * directions[d][2]>>

\* In direction d from (row, col): n opposing discs, then a disc of player.
Closes(b, row, col, player, d, n) ==
    /\ n >= 1
    /\ InBounds(RayCell(row, col, d, n + 1)[1], RayCell(row, col, d, n + 1)[2])
    /\ \A k \in 1 .. n : At(b, RayCell(row, col, d, k)) = -player
    /\ At(b, RayCell(row, col, d, n + 1)) = player

\* In direction d from (row, col) the neighbour is an opposing disc and the
\* run it starts is closed by a disc of player.
RayCaptures(b, row, col, player, d) ==
    /\ InBounds(RayCell(row, col, d, 1)[1], RayCell(row, col, d, 1)[2])
    /\ At(b, RayCell(row, col, d, 1)) = -player
    /\ \E n \in 1 .. BOARD_SIZE : Closes(b, row, col, player, d, n)

Legal(b, row, col, player) ==
    /\ At(b, <<row, col>>) = 0
    /\ \E d \in 1 .. 8 : RayCaptures(b, row, col, player, d)

CaptureSet(b, row, col, player) ==
    UNION { {RayCell(row, col, dn[1], k) : k \in 1 .. dn[2]} :
            dn \in {e \in (1 .. 8) \X (1 .. BOARD_SIZE) :
                       Closes(b, row, col, player, e[1], e[2])} }

HasLegal(b, player) == \E x \in Cells : Legal(b, x[1], x[2], player)

\* Neither player has a legal move.
Terminal(b) == ~HasLegal(b, 1) /\ ~HasLegal(b, -1)

\* The board after a move at (row, col) by player, by the capture rule.
Captured(b, row, col, player) ==
    LET S == CaptureSet(b, row, col, player)
        v(x) == IF x = <<row, col>> \/ x \in S THEN player ELSE At(b, x)
    IN  MakeBoard(v)

----------------------------------------------------------------------------
(* Calls of the board functions on constructed boards *)

\* Bounds of the constructed boards: at most MaxDiscs discs, all of them in
\* the window of 3 rows and 4 columns at the (0, BOARD_SIZE - 1) corner,
\* which has the low edge of the rows and the high edge of the columns; the
\* calls target the 2 x 2 cells at that corner.
MaxDiscs == 4

Targets == {x \in Cells : x[1] < 2 /\ x[2] >= BOARD_SIZE - 2}

\* The rows of the window: empty but for the last 4 columns.
WindowRows ==
    { [j \in 1 .. BOARD_SIZE |-> IF j > BOARD_SIZE - 4 THEN f[j] ELSE 0]
        : f \in [(BOARD_SIZE - 3) .. BOARD_SIZE -> {-1, 0, 1}] }

Discs(row) == Cardinality({j \in 1 .. BOARD_SIZE : row[j] # 0})

\* The board whose first three rows are r1, r2, r3, the others empty.
WindowBoard(r1, r2, r3) ==
    [i \in 1 .. BOARD_SIZE |->
        IF i = 1 THEN r1 ELSE IF i = 2 THEN r2 ELSE IF i = 3 THEN r3
        ELSE [j \in 1 .. BOARD_SIZE |-> 0]]

LogicInit ==
    /\ prog = "logic"
    /\ choice = "-"
    /\ draws = "cells"
    /\ model = FALSE
    /\ pc = "input"
    /\ \E r1 \in WindowRows :
       \E r2 \in {r \in WindowRows : Discs(r1) + Discs(r) <= MaxDiscs} :
       \E r3 \in {r \in WindowRows :
                     Discs(r1) + Discs(r2) + Discs(r) <= MaxDiscs} :
          /\ board = WindowBoard(r1, r2, r3)
          /\ pre = WindowBoard(r1, r2, r3)
    /\ current_player = 1
    /\ running = TRUE
    /\ call = NoCall
    /\ moves = 0
    /\ ret = NoRet
    /\ total_scores = [Black |-> 0, White |-> 0]
    /\ move_history = << >>
    /\ tally = NoTally
    /\ heatmap_surface = None
    /\ heatmap_board_hash = None

CallIsValidMove(row, col, player) ==
    /\ prog = "logic" /\ pc = "input"
    /\ ret' = [NoRet EXCEPT !.op = "is_valid_move", !.row = row, !.col = col,
                            !.player = player,
                            !.valid = is_valid_move(board, row, col, player)]
    /\ pc' = "done"
    /\ UNCHANGED <<main_locals, total_scores, prog, draws, choice, model, board, current_player, running,
                   pre, call, moves>>

CallPlaceDisc(row, col, player) ==
    /\ prog = "logic" /\ pc = "input"
    /\ pre' = board
    /\ call' = [row |-> row, col |-> col, player |-> player]
    /\ board' = place_disc(board, row, col, player)
    /\ moves' = moves + 1
    /\ ret' = [NoRet EXCEPT !.op = "place_disc", !.row = row, !.col = col,
                            !.player = player]
    /\ pc' = "done"
    /\ UNCHANGED <<main_locals, total_scores, prog, draws, choice, model, current_player, running>>

LogicNext ==
    \/ \E x \in Targets : \E p \in Players : CallIsValidMove(x[1], x[2], p)
    \/ \E x \in Targets : \E p \in Players : CallPlaceDisc(x[1], x[2], p)

LogicSpec == LogicInit /\ [][LogicNext]_vars

\* The calls of place_disc alone, on the same boards.
PlaceNext ==
    \E x \in Targets : \E p \in Players : CallPlaceDisc(x[1], x[2], p)

PlaceSpec == LogicInit /\ [][PlaceNext]_vars

----------------------------------------------------------------------------
(* Calls of the read-only functions on constructed boards *)

\* The boards have at most MaxQueryDiscs discs, in the first two rows of
\* the window.
MaxQueryDiscs == 3

QueryInit ==
    /\ prog = "logic"
    /\ choice = "-"
    /\ draws = "cells"
    /\ model = FALSE
    /\ pc = "input"
    /\ \E r1 \in WindowRows :
       \E r2 \in {r \in WindowRows : Discs(r1) + Discs(r) <= MaxQueryDiscs} :
          /\ board = WindowBoard(r1, r2, [j \in 1 .. BOARD_SIZE |-> 0])
          /\ pre = WindowBoard(r1, r2, [j \in 1 .. BOARD_SIZE |-> 0])
    /\ current_player = 1
    /\ running = TRUE
    /\ call = NoCall
    /\ moves = 0
    /\ ret = NoRet
    /\ total_scores = [Black |-> 0, White |-> 0]
    /\ move_history = << >>
    /\ tally = NoTally
    /\ heatmap_surface = None
    /\ heatmap_board_hash = None

\* Two calls of count_discs(board), one after the other.
CallCountDiscs ==
    /\ prog = "logic" /\ pc = "input"
    /\ ret' = [NoRet EXCEPT !.op = "count_discs",
                            !.value = <<count_discs(board),
                                        count_discs(board)>>]
    /\ pc' = "done"
    /\ UNCHANGED <<main_locals, total_scores, prog, draws, choice, model, board, current_player,
                   running, pre, call, moves>>

\* get_valid_moves(board, player), then has_valid_moves(board, player).
CallGetValidMoves(player) ==
    /\ prog = "logic" /\ pc = "input"
    /\ ret' = [NoRet EXCEPT !.op = "get_valid_moves", !.player = player,
                            !.value = get_valid_moves(board, player),
                            !.valid = has_valid_moves(board, player)]
    /\ pc' = "done"
    /\ UNCHANGED <<main_locals, total_scores, prog, draws, choice, model, board, current_player,
                   running, pre, call, moves>>

\* calculate_heuristic_scores(board, player, get_valid_moves(board, player)),
\* as draw_heatmap_overlay calls it.
CallHeuristicScores(player) ==
    LET out == calculate_heuristic_scores(board, player,
                                          get_valid_moves(board, player))
    IN  /\ prog = "logic" /\ pc = "input"
        /\ board' = out.board
        /\ ret' = [NoRet EXCEPT !.op = "calculate_heuristic_scores",
                                !.player = player, !.value = out.scores]
        /\ pc' = "done"
        /\ UNCHANGED <<main_locals, total_scores, prog, draws, choice, model, current_player,
                       running, pre, call, moves>>

QueryNext ==
    \/ \E x \in Targets : \E p \in Players : CallIsValidMove(x[1], x[2], p)
    \/ CallCountDiscs
    \/ \E p \in Players : CallGetValidMoves(p)
    \/ \E p \in Players : CallHeuristicScores(p)

QuerySpec == QueryInit /\ [][QueryNext]_vars

----------------------------------------------------------------------------
(* undo.py: MoveHistory, as functions of self.history *)

\* __init__: "self.history = []".
MoveHistory == << >>

\* add_move: "self.history.append((board.copy(), player, row, col))".
add_move(history, b, player, row, col) ==
    Append(history, <<b, player, row, col>>)

can_undo(history) == Len(history) > 0

\* undo popping the oldest entry.
undo_oldest(history) ==
    IF can_undo(history)
    THEN [history |-> SubSeq(history, 2, Len(history)), value |-> history[1]]
    ELSE [history |-> history, value |-> None]

\* undo: the history it leaves and the value it returns.
undo(history) ==
    IF can_undo(history)
    THEN [history |-> SubSeq(history, 1, Len(history) - 1),
          value |-> history[Len(history)]]
    ELSE [history |-> history, value |-> None]

\* get_last_move returning the oldest entry.
get_first_move(history) ==
    IF can_undo(history) THEN history[1] ELSE None

get_last_move(history) ==
    IF can_undo(history) THEN history[Len(history)] ELSE None

clear(history) == << >>

\* board.tobytes(): the 64 cells in row order, each int8 as one byte
\* (WHITE, -1, is the byte 255).
tobytes(b) ==
    [k \in 1 .. BOARD_SIZE * BOARD_SIZE |->
        At(b, <<(k - 1) \div BOARD_SIZE, (k - 1) % BOARD_SIZE>>) % 256]

\* generate_heatmap_surface(screen, board, current_player): the surface
\* with the overlay of the moves of current_player on board.
generate_heatmap_surface(b, player) == <<b, player>>

----------------------------------------------------------------------------
(* Inputs of the game programs *)

\* The cells the input sources (clicks, actions, the policy) choose from:
\* the first NumInputs cells of InputOrder.
InputOrder ==
    << <<2, 3>>, <<2, 2>>, <<2, 1>>, <<1, 1>>, <<4, 5>>, <<2, 0>>, <<0, 0>>,
       <<0, 2>>, <<2, 4>>, <<2, 5>>, <<3, 5>>, <<5, 3>>, <<5, 4>>, <<3, 2>> >>
NumInputs == 11

InputCells ==
    {InputOrder[i] : i \in {j \in 1 .. Len(InputOrder) : j <= NumInputs}}

\* Action indices of the gym environments (0 .. size*size - 1).
Actions == {x[1] * BOARD_SIZE + x[2] : x \in InputCells}

\* Click positions (x, y) in pixels: the centre of each input cell, and two
\* positions in the score bar below the grid.
ClickPositions ==
    {<<x[2] * CELL_SIZE + CELL_SIZE \div 2, x[1] * CELL_SIZE + CELL_SIZE \div 2>>
        : x \in InputCells}
    \cup {<<CELL_SIZE \div 2, HEIGHT - 60>>, <<WIDTH - 1, HEIGHT - 1>>}

\* Choosing among the legal moves: the first BranchMoves moves of a game
\* are the first or the last entry of valid, the later ones the first.
BranchMoves == 3

LegalDraws(valid) ==
    IF valid = << >> THEN {}
    ELSE IF moves < BranchMoves THEN {1, Len(valid)} ELSE {1}

\* np.random.randint(len(valid)), as a 1-based index into valid: the draws
\* are the indices of the input cells, or those of LegalDraws.
RandomDraws(valid) ==
    IF draws = "cells" THEN {i \in 1 .. Len(valid) : valid[i] \in InputCells}
    ELSE LegalDraws(valid)

\* The pixel at the centre of a cell.
Centre(cell) ==
    <<cell[2] * CELL_SIZE + CELL_SIZE \div 2,
      cell[1] * CELL_SIZE + CELL_SIZE \div 2>>

----------------------------------------------------------------------------
(* env.py: OthelloGymEnv, and reversi_env.py: OthelloEnv *)

\* Rewards are kept in hundredths (1.04 is 104, -0.1 is -10, -10 is -1000).

\* The end-of-game test taken as "the board is full".
GameOverBoardFull(b) == \A x \in Cells : At(b, x) # 0

\* "not has_valid_moves(board, 1) and not has_valid_moves(board, -1)".
GameOver(b) == ~has_valid_moves(b, 1) /\ ~has_valid_moves(b, -1)

\* EnvReset without "self.current_player = 1".
EnvResetKeepTurn ==
    /\ prog \in {"gym", "othello"}
    /\ board' = init_board
    /\ current_player' = current_player
    /\ pre' = init_board
    /\ call' = NoCall
    /\ moves' = 0
    /\ ret' = [NoRet EXCEPT !.op = "reset"]
    /\ UNCHANGED <<main_locals, total_scores, prog, draws, choice, model, pc, running>>

EnvReset ==
    /\ prog \in {"gym", "othello"}
    /\ board' = init_board
    /\ current_player' = 1
    /\ pre' = init_board
    /\ call' = NoCall
    /\ moves' = 0
    /\ ret' = [NoRet EXCEPT !.op = "reset"]
    /\ UNCHANGED <<main_locals, total_scores, prog, draws, choice, model, pc, running>>

GymReward(b) ==
    LET blacks == count_discs(b)[1]
        whites == count_discs(b)[2]
    IN  IF blacks > whites THEN 104
        ELSE IF whites > blacks THEN -100
        ELSE 0

\* GymStep switching the player also when it rejects the action.
GymStepSwitchOnReject(action) ==
    LET row == action \div BOARD_SIZE
        col == action % BOARD_SIZE
        nb  == place_disc(board, row, col, current_player)
    IN  /\ prog = "gym"
        /\ IF ~is_valid_move(board, row, col, current_player)
           THEN /\ ret' = [NoRet EXCEPT !.op = "step", !.row = row,
                                        !.col = col,
                                        !.player = current_player,
                                        !.reward = -10]
                /\ current_player' = current_player * (-1)
                /\ UNCHANGED <<board, pre, call, moves>>
           ELSE /\ pre' = board
                /\ call' = [row |-> row, col |-> col,
                            player |-> current_player]
                /\ board' = nb
                /\ current_player' = current_player * (-1)
                /\ moves' = moves + 1
                /\ ret' = [NoRet EXCEPT !.op = "step", !.row = row,
                                        !.col = col,
                                        !.player = current_player,
                                        !.valid = TRUE,
                                        !.terminated =
                                            ~has_valid_moves(nb, 1)
                                            /\ ~has_valid_moves(nb, -1)]
        /\ UNCHANGED <<main_locals, total_scores, prog, draws, choice, model, pc, running>>

\* GymStep without the is_valid_move test.
GymStepUnchecked(action) ==
    LET row == action \div BOARD_SIZE
        col == action % BOARD_SIZE
        nb  == place_disc(board, row, col, current_player)
    IN  /\ prog = "gym"
        /\ pre' = board
        /\ call' = [row |-> row, col |-> col, player |-> current_player]
        /\ board' = nb
        /\ current_player' = current_player * (-1)
        /\ moves' = moves + 1
        /\ ret' = [NoRet EXCEPT !.op = "step", !.row = row, !.col = col,
                                !.player = current_player, !.valid = TRUE,
                                !.reward = IF GameOver(nb) THEN GymReward(nb)
                                           ELSE 0,
                                !.terminated = GameOver(nb)]
        /\ UNCHANGED <<main_locals, total_scores, prog, draws, choice, model, pc, running>>

GymStep(action) ==
    LET row == action \div BOARD_SIZE
        col == action % BOARD_SIZE
        nb  == place_disc(board, row, col, current_player)
    IN  /\ prog = "gym"
        /\ IF ~is_valid_move(board, row, col, current_player)
           THEN /\ ret' = [NoRet EXCEPT !.op = "step", !.row = row,
                                        !.col = col,
                                        !.player = current_player,
                                        !.reward = -10]
                /\ UNCHANGED <<board, current_player, pre, call, moves>>
           ELSE /\ pre' = board
                /\ call' = [row |-> row, col |-> col,
                            player |-> current_player]
                /\ board' = nb
                /\ current_player' = current_player * (-1)
                /\ moves' = moves + 1
                /\ ret' = [NoRet EXCEPT !.op = "step", !.row = row,
                                        !.col = col,
                                        !.player = current_player,
                                        !.valid = TRUE,
                                        !.reward =
                                            IF GameOver(nb) THEN GymReward(nb)
                                                            ELSE 0,
                                        !.terminated = GameOver(nb)]
        /\ UNCHANGED <<main_locals, total_scores, prog, draws, choice, model, pc, running>>

\* OthelloEnv.get_winner_reward on board b with self.current_player = cp.
get_winner_reward(b, cp) ==
    LET black_count == Cardinality({x \in Cells : At(b, x) = 1})
        white_count == Cardinality({x \in Cells : At(b, x) = -1})
    IN  IF black_count > white_count
        THEN (IF cp = -1 THEN 100 ELSE -100)
        ELSE IF white_count > black_count
        THEN (IF cp = 1 THEN 100 ELSE -100)
        ELSE 0

OthelloStep(action) ==
    LET row == action \div BOARD_SIZE
        col == action % BOARD_SIZE
        nb  == place_disc(board, row, col, current_player)
    IN  /\ prog = "othello"
        /\ IF ~is_valid_move(board, row, col, current_player)
           THEN /\ ret' = [NoRet EXCEPT !.op = "step", !.row = row,
                                        !.col = col,
                                        !.player = current_player,
                                        !.reward = -1000]
                /\ UNCHANGED <<board, current_player, pre, call, moves>>
           ELSE /\ pre' = board
                /\ call' = [row |-> row, col |-> col,
                            player |-> current_player]
                /\ board' = nb
                /\ current_player' = current_player * (-1)
                /\ moves' = moves + 1
                /\ ret' = [NoRet EXCEPT !.op = "step", !.row = row,
                                        !.col = col,
                                        !.player = current_player,
                                        !.valid = TRUE,
                                        !.reward =
                                            IF GameOver(nb)
                                            THEN get_winner_reward(
                                                     nb, current_player * (-1))
                                            ELSE 0,
                                        !.terminated = GameOver(nb)]
        /\ UNCHANGED <<main_locals, total_scores, prog, draws, choice, model, pc, running>>

----------------------------------------------------------------------------
(* main.py: main(), and the main() of Reversi-Game/reversi_env.py *)

\* The actions are the handlers that place discs (MOUSEBUTTONDOWN, the AI
\* move), the end-of-game test and the frame, and the KEYDOWN handlers of
\* the keys U and M of main.py. The handler of the key H reads the board
\* and assigns nothing; it is not among them.

\* "current_player *= -1; if not has_valid_moves(board, current_player):
\* current_player *= -1" after player p has moved to board nb.
TurnAfterNoPass(nb, p) == p * (-1)

TurnAfter(nb, p) ==
    IF ~has_valid_moves(nb, p * (-1)) THEN p * (-1) * (-1) ELSE p * (-1)

\* "place_disc(board, r, c, current_player)" followed by the turn switch.
Play(r, c) ==
    LET nb == place_disc(board, r, c, current_player)
    IN  /\ pre' = board
        /\ call' = [row |-> r, col |-> c, player |-> current_player]
        /\ board' = nb
        /\ moves' = moves + 1
        /\ current_player' = TurnAfter(nb, current_player)

NewGame ==
    /\ prog \in {"main", "mono"}
    /\ pc = "new"
    /\ board' = init_board
    /\ current_player' = 1
    /\ running' = TRUE
    /\ pre' = init_board
    /\ call' = NoCall
    /\ moves' = 0
    /\ ret' = NoRet
    /\ pc' = "events"
    /\ heatmap_surface' = None
    /\ heatmap_board_hash' = None
    /\ move_history' = MoveHistory
    /\ tally' = NoTally
    /\ UNCHANGED <<total_scores, prog, draws, choice, model>>

\* Clicks are drawn in the games played until MaxWins games have been won;
\* the game after them is started and receives no click.
MaxWins == 1

ClicksDrawn == total_scores.Black + total_scores.White < MaxWins

\* main.py, MOUSEBUTTONDOWN at pixel (x, y).
MainClick(x, y) ==
    LET r == y \div CELL_SIZE
        c == x \div CELL_SIZE
    IN  /\ prog = "main"
        /\ pc = "events"
        /\ ClicksDrawn
        /\ IF /\ current_player = 1 \/ (current_player = -1 /\ choice = "1")
              /\ y < HEIGHT - 60
              /\ is_valid_move(board, r, c, current_player)
           THEN /\ move_history' =
                     add_move(move_history, board, current_player, r, c)
                /\ tally' = [tally EXCEPT !.add = @ + 1]
                /\ Play(r, c)
                /\ heatmap_surface' = None
                /\ heatmap_board_hash' = None
           ELSE UNCHANGED <<board, current_player, pre, call, moves,
                            main_locals>>
        /\ UNCHANGED <<total_scores, prog, draws, choice, model, pc, running, ret>>

\* Reversi-Game/reversi_env.py, MOUSEBUTTONDOWN at pixel (x, y).
MonoClick(x, y) ==
    LET r == y \div CELL_SIZE
        c == x \div CELL_SIZE
    IN  /\ prog = "mono"
        /\ pc = "events"
        /\ ClicksDrawn
        /\ IF /\ current_player = 1
              /\ y < HEIGHT - 60
              /\ is_valid_move(board, r, c, current_player)
           THEN Play(r, c)
           ELSE UNCHANGED <<board, current_player, pre, call, moves>>
        /\ UNCHANGED <<main_locals, total_scores, prog, draws, choice, model, pc, running, ret>>

\* main.py, KEYDOWN K_u. The handler restores the board, the turn and the
\* history, clears the heatmap and then calls get_undo_analysis, a name
\* main.py never binds (undo.get_undo_analysis is imported only under the
\* name get_move_evaluation): the call raises NameError, which nothing
\* catches.
PressU ==
    /\ prog = "main"
    /\ pc = "events"
    /\ IF choice \in {"1", "2"} /\ can_undo(move_history)
       THEN LET last_move == get_last_move(move_history)
            IN  /\ board' = last_move[1]
                /\ current_player' = last_move[2]
                /\ move_history' = undo(move_history).history
                /\ tally' = [tally EXCEPT !.undo = @ + 1]
                /\ heatmap_surface' = None
                /\ heatmap_board_hash' = None
                /\ ret' = [NoRet EXCEPT !.op = "undo", !.valid = TRUE,
                                        !.row = last_move[3],
                                        !.col = last_move[4],
                                        !.player = last_move[2]]
                /\ pc' = "raised"
       ELSE /\ ret' = [NoRet EXCEPT !.op = "undo"]
            /\ UNCHANGED <<board, current_player, main_locals, pc>>
    /\ UNCHANGED <<total_scores, prog, draws, choice, model, running, pre, call, moves>>

\* main.py, KEYDOWN K_m.
PressM ==
    /\ prog = "main"
    /\ pc = "events"
    /\ IF choice \in {"1", "2"}
       THEN IF heatmap_board_hash # tobytes(board)
            THEN /\ heatmap_surface' =
                      generate_heatmap_surface(board, current_player)
                 /\ heatmap_board_hash' = tobytes(board)
            ELSE /\ heatmap_surface' = None
                 /\ heatmap_board_hash' = None
       ELSE UNCHANGED <<heatmap_surface, heatmap_board_hash>>
    /\ UNCHANGED <<move_history, tally, total_scores, prog, draws, choice, model, pc,
                   board, current_player, running, pre, call, moves, ret>>

\* The event queue of this frame is drained.
EndEvents ==
    /\ prog \in {"main", "mono"}
    /\ pc = "events"
    /\ pc' = "ai"
    /\ UNCHANGED <<main_locals, total_scores, prog, draws, choice, model, board, current_player, running,
                   pre, call, moves, ret>>

\* TrainedChoice without the validation of the predicted action.
TrainedChoiceUnchecked(action, valid, k) ==
    <<action \div BOARD_SIZE, action % BOARD_SIZE>>

\* The cell the trained-AI branch of main.py hands to place_disc: the
\* predicted action, replaced by valid[k] when it fails validation.
TrainedChoice(action, valid, k) ==
    LET r == action \div BOARD_SIZE
        c == action % BOARD_SIZE
    IN  IF ~is_valid_move(board, r, c, current_player)
        THEN (IF valid # << >> THEN valid[k] ELSE <<r, c>>)
        ELSE <<r, c>>

\* What model.predict returned, and whether it passed validation.
Predicted(action) ==
    [NoRet EXCEPT !.op = "predict",
                  !.valid = is_valid_move(board, action \div BOARD_SIZE,
                                          action % BOARD_SIZE, current_player)]

\* main.py, "AI moves": action is what model.predict returns, k the random
\* index drawn.
MainAI ==
    /\ prog = "main"
    /\ pc = "ai"
    /\ IF current_player = -1 /\ choice \in {"2", "3", "4"}
       THEN \E valid \in {get_valid_moves(board, current_player)} :
            IF valid = << >>
            THEN /\ current_player' = current_player * (-1)
                 /\ UNCHANGED <<board, pre, call, moves, ret>>
            ELSE IF choice = "2"
            THEN /\ \E k \in RandomDraws(valid) : Play(valid[k][1], valid[k][2])
                 /\ UNCHANGED ret
            ELSE IF model
            THEN \E action \in Actions : \E k \in RandomDraws(valid) :
                    /\ Play(TrainedChoice(action, valid, k)[1],
                            TrainedChoice(action, valid, k)[2])
                    /\ ret' = Predicted(action)
            ELSE /\ \E k \in RandomDraws(valid) : Play(valid[k][1], valid[k][2])
                 /\ UNCHANGED ret
       ELSE UNCHANGED <<board, current_player, pre, call, moves, ret>>
    /\ pc' = "check"
    /\ UNCHANGED <<main_locals, total_scores, prog, draws, choice, model, running>>

\* Reversi-Game/reversi_env.py, "If it's AI's turn, decide move".
MonoAI ==
    /\ prog = "mono"
    /\ pc = "ai"
    /\ IF current_player = -1 /\ (choice = "2" \/ (choice = "3" /\ ~model))
       THEN \E valid \in {get_valid_moves(board, current_player)} :
            /\ IF valid # << >>
               THEN \E k \in RandomDraws(valid) : Play(valid[k][1], valid[k][2])
               ELSE UNCHANGED <<board, current_player, pre, call, moves>>
            /\ UNCHANGED ret
       ELSE IF current_player = -1 /\ choice = "3" /\ model
       THEN \E action \in Actions :
            /\ ret' = Predicted(action)
            /\ IF ~is_valid_move(board, action \div BOARD_SIZE,
                                 action % BOARD_SIZE, current_player)
               THEN \E valid \in {get_valid_moves(board, current_player)} :
                    IF valid # << >>
                    THEN \E k \in RandomDraws(valid) :
                            Play(valid[k][1], valid[k][2])
                    ELSE /\ current_player' = TurnAfter(board, current_player)
                         /\ UNCHANGED <<board, pre, call, moves>>
               ELSE Play(action \div BOARD_SIZE, action % BOARD_SIZE)
       ELSE UNCHANGED <<board, current_player, pre, call, moves, ret>>
    /\ pc' = "check"
    /\ UNCHANGED <<main_locals, total_scores, prog, draws, choice, model, running>>

\* end_screen counting a tie as a win of Black.
end_screen_tie_for_black(scores, blacks, whites) ==
    IF blacks >= whites THEN [scores EXCEPT !.Black = scores.Black + 1]
    ELSE [scores EXCEPT !.White = scores.White + 1]

\* ui.py, end_screen(screen, blacks, whites): total_scores when it returns.
end_screen(scores, blacks, whites) ==
    IF blacks > whites THEN [scores EXCEPT !.Black = scores.Black + 1]
    ELSE IF whites > blacks THEN [scores EXCEPT !.White = scores.White + 1]
    ELSE scores

\* "if not has_valid_moves(board, 1) and not has_valid_moves(board, -1)":
\* end_screen, which waits for the key C (the game loop is left with
\* running = False) or Q (sys.exit).
CheckEnd ==
    /\ prog \in {"main", "mono"}
    /\ pc = "check"
    /\ IF GameOver(board)
       THEN /\ total_scores' = end_screen(total_scores, count_discs(board)[1],
                                          count_discs(board)[2])
            /\ \E key \in {"c", "q"} :
                  IF key = "c"
                  THEN running' = FALSE /\ pc' = "draw"
                  ELSE running' = running /\ pc' = "exit"
       ELSE /\ pc' = "draw"
            /\ UNCHANGED <<total_scores, running>>
    /\ UNCHANGED <<main_locals, prog, draws, choice, model, board, current_player,
                   pre, call, moves, ret>>

\* draw_board, display.flip, clock.tick: the frame ends; "while running".
Draw ==
    /\ prog \in {"main", "mono"}
    /\ pc = "draw"
    /\ pc' = IF running THEN "events" ELSE "new"
    /\ UNCHANGED <<main_locals, total_scores, prog, draws, choice, model, board, current_player, running,
                   pre, call, moves, ret>>

----------------------------------------------------------------------------
(* ui.py: end_screen called with disc counts *)

\* The counts handed to end_screen are drawn from 0 .. MaxCount, until
\* MaxWins wins are counted.
MaxCount == 2

\* end_screen(screen, blacks, whites), left with the key C or with Q.
CallEndScreen(blacks, whites) ==
    /\ prog = "ui"
    /\ pc = "ready"
    /\ total_scores.Black + total_scores.White < MaxWins
    /\ total_scores' = end_screen(total_scores, blacks, whites)
    /\ ret' = [NoRet EXCEPT !.op = "end_screen", !.value = <<blacks, whites>>]
    /\ \E key \in {"c", "q"} : pc' = IF key = "c" THEN "ready" ELSE "exit"
    /\ UNCHANGED <<main_locals, prog, draws, choice, model, board, current_player,
                   running, pre, call, moves>>

----------------------------------------------------------------------------
(* The game programs *)

\* (program, choice, model) as the programs can start.
Programs ==
    {<<"gym", "-", FALSE>>, <<"othello", "-", FALSE>>, <<"ui", "-", FALSE>>,
     <<"main", "1", FALSE>>, <<"main", "2", FALSE>>, <<"main", "3", TRUE>>,
     <<"main", "3", FALSE>>, <<"main", "4", TRUE>>,
     <<"mono", "1", FALSE>>, <<"mono", "2", FALSE>>, <<"mono", "3", TRUE>>,
     <<"mono", "4", TRUE>>}

Init ==
    /\ \E p \in Programs : prog = p[1] /\ choice = p[2] /\ model = p[3]
    /\ draws = "cells"
    /\ pc = IF prog \in {"gym", "othello", "ui"} THEN "ready" ELSE "events"
    /\ board = init_board
    /\ current_player = 1
    /\ running = TRUE
    /\ pre = init_board
    /\ call = NoCall
    /\ moves = 0
    /\ ret = NoRet
    /\ total_scores = [Black |-> 0, White |-> 0]
    /\ move_history = << >>
    /\ tally = NoTally
    /\ heatmap_surface = None
    /\ heatmap_board_hash = None

Next ==
    \/ EnvReset
    \/ \E a \in Actions : GymStep(a)
    \/ \E a \in Actions : OthelloStep(a)
    \/ NewGame
    \/ \E xy \in ClickPositions : MainClick(xy[1], xy[2])
    \/ \E xy \in ClickPositions : MonoClick(xy[1], xy[2])
    \/ EndEvents
    \/ MainAI
    \/ MonoAI
    \/ CheckEnd
    \/ Draw
    \/ \E blacks \in 0 .. MaxCount : \E whites \in 0 .. MaxCount :
          CallEndScreen(blacks, whites)

Spec == Init /\ [][Next]_vars

----------------------------------------------------------------------------
(* main.py with the keys U and M among the events *)

KeysInit ==
    /\ Init
    /\ prog = "main"
    /\ choice \in {"1", "2", "3"}
    /\ ~model

KeysNext ==
    \/ NewGame
    \/ \E xy \in ClickPositions : MainClick(xy[1], xy[2])
    \/ PressU
    \/ PressM
    \/ EndEvents
    \/ MainAI
    \/ CheckEnd
    \/ Draw

KeysSpec == KeysInit /\ [][KeysNext]_vars

----------------------------------------------------------------------------
(* undo.py: a MoveHistory object and the calls of its methods *)

\* At most MaxHistory entries are kept and MaxAdds add_move calls made
\* between two clear calls.
MaxHistory == 3
MaxAdds == 4

\* The moves handed to add_move: the opening BLACK (2,3), WHITE (2,2),
\* BLACK (2,1), each with the board it is played on.
HistoryMoves ==
    { <<init_board, 1, 2, 3>>,
      <<place_disc(init_board, 2, 3, 1), -1, 2, 2>>,
      <<place_disc(place_disc(init_board, 2, 3, 1), 2, 2, -1), 1, 2, 1>> }

HistoryInit ==
    /\ prog = "history"
    /\ choice = "-"
    /\ draws = "cells"
    /\ model = FALSE
    /\ pc = "ready"
    /\ board = init_board
    /\ current_player = 1
    /\ running = TRUE
    /\ pre = init_board
    /\ call = NoCall
    /\ moves = 0
    /\ ret = NoRet
    /\ total_scores = [Black |-> 0, White |-> 0]
    /\ move_history = MoveHistory
    /\ tally = NoTally
    /\ heatmap_surface = None
    /\ heatmap_board_hash = None

CallAddMove(m) ==
    /\ prog = "history"
    /\ Len(move_history) < MaxHistory
    /\ tally.add < MaxAdds
    /\ move_history' = add_move(move_history, m[1], m[2], m[3], m[4])
    /\ tally' = [tally EXCEPT !.add = @ + 1]
    /\ ret' = [NoRet EXCEPT !.op = "add_move", !.value = m]
    /\ UNCHANGED <<heatmap_surface, heatmap_board_hash, total_scores, prog, draws,
                   choice, model, pc, board, current_player, running, pre,
                   call, moves>>

CallCanUndo ==
    /\ prog = "history"
    /\ ret' = [NoRet EXCEPT !.op = "can_undo", !.valid = can_undo(move_history)]
    /\ UNCHANGED <<main_locals, total_scores, prog, draws, choice, model, pc, board,
                   current_player, running, pre, call, moves>>

CallUndo ==
    /\ prog = "history"
    /\ move_history' = undo(move_history).history
    /\ tally' = IF can_undo(move_history)
                THEN [tally EXCEPT !.undo = @ + 1] ELSE tally
    /\ ret' = [NoRet EXCEPT !.op = "undo", !.value = undo(move_history).value]
    /\ UNCHANGED <<heatmap_surface, heatmap_board_hash, total_scores, prog, draws,
                   choice, model, pc, board, current_player, running, pre,
                   call, moves>>

CallGetLastMove ==
    /\ prog = "history"
    /\ ret' = [NoRet EXCEPT !.op = "get_last_move",
                            !.value = get_last_move(move_history)]
    /\ UNCHANGED <<main_locals, total_scores, prog, draws, choice, model, pc, board,
                   current_player, running, pre, call, moves>>

CallClear ==
    /\ prog = "history"
    /\ move_history' = clear(move_history)
    /\ tally' = NoTally
    /\ ret' = [NoRet EXCEPT !.op = "clear"]
    /\ UNCHANGED <<heatmap_surface, heatmap_board_hash, total_scores, prog, draws,
                   choice, model, pc, board, current_player, running, pre,
                   call, moves>>

HistoryNext ==
    \/ \E m \in HistoryMoves : CallAddMove(m)
    \/ CallCanUndo
    \/ CallUndo
    \/ CallGetLastMove
    \/ CallClear

HistorySpec == HistoryInit /\ [][HistoryNext]_vars

----------------------------------------------------------------------------
(* The coordinates the callers hand to is_valid_move and place_disc *)

\* "if y < HEIGHT-60" taken as "if y < HEIGHT".
on_grid_whole_window(y) == y < HEIGHT

\* main.py, MOUSEBUTTONDOWN: "if y < HEIGHT-60".
on_grid(y) == y < HEIGHT - 60

\* "r, c = y // CELL_SIZE, x // CELL_SIZE".
click_cell(x, y) == <<y \div CELL_SIZE, x \div CELL_SIZE>>

\* "row, col = divmod(action, BOARD_SIZE)".
divmod(a, n) == <<a \div n, a % n>>

\* env.py: "self.action_space = spaces.Discrete(BOARD_SIZE * BOARD_SIZE)".
action_space == 0 .. (BOARD_SIZE * BOARD_SIZE - 1)

CoordInit ==
    /\ prog = "coords"
    /\ choice = "-"
    /\ draws = "cells"
    /\ model = FALSE
    /\ pc = "input"
    /\ board = init_board
    /\ current_player = 1
    /\ running = TRUE
    /\ pre = init_board
    /\ call = NoCall
    /\ moves = 0
    /\ ret = NoRet
    /\ total_scores = [Black |-> 0, White |-> 0]
    /\ move_history = MoveHistory
    /\ tally = NoTally
    /\ heatmap_surface = None
    /\ heatmap_board_hash = None

\* A click at pixel (x, y) of the window: the cell computed from it, and
\* whether the handler goes on to is_valid_move with it.
ClickAt(x, y) ==
    /\ prog = "coords"
    /\ pc = "input"
    /\ ret' = [NoRet EXCEPT !.op = "click", !.valid = on_grid(y),
                            !.row = click_cell(x, y)[1],
                            !.col = click_cell(x, y)[2],
                            !.value = <<x, y>>]
    /\ pc' = "done"
    /\ UNCHANGED <<main_locals, total_scores, prog, draws, choice, model, board,
                   current_player, running, pre, call, moves>>

\* An action index decoded by step, or by the trained-AI branch of main.
DecodeAction(a) ==
    /\ prog = "coords"
    /\ pc = "input"
    /\ ret' = [NoRet EXCEPT !.op = "divmod", !.valid = TRUE,
                            !.row = divmod(a, BOARD_SIZE)[1],
                            !.col = divmod(a, BOARD_SIZE)[2],
                            !.value = <<a>>]
    /\ pc' = "done"
    /\ UNCHANGED <<main_locals, total_scores, prog, draws, choice, model, board,
                   current_player, running, pre, call, moves>>

\* One click at any pixel of the window, or one action index decoded.
CoordNext ==
    /\ pc = "input"
    /\ \/ \E x \in 0 .. (WIDTH - 1) : \E y \in 0 .. (HEIGHT - 1) : ClickAt(x, y)
       \/ \E a \in action_space : DecodeAction(a)

CoordSpec == CoordInit /\ [][CoordNext]_vars

----------------------------------------------------------------------------
(* main.py played to the end: the clicks go to legal moves *)

LiveInit ==
    /\ prog = "main"
    /\ draws = "legal"
    /\ choice \in {"1", "2"}
    /\ model = FALSE
    /\ pc = "events"
    /\ board = init_board
    /\ current_player = 1
    /\ running = TRUE
    /\ pre = init_board
    /\ call = NoCall
    /\ moves = 0
    /\ ret = NoRet
    /\ total_scores = [Black |-> 0, White |-> 0]
    /\ move_history = MoveHistory
    /\ tally = NoTally
    /\ heatmap_surface = None
    /\ heatmap_board_hash = None

\* The clicks of a frame: on a legal move of the player to move, or in the
\* score bar.
LegalClicks ==
    LET valid == get_valid_moves(board, current_player)
    IN  {Centre(valid[k]) : k \in LegalDraws(valid)}
           \cup {<<CELL_SIZE \div 2, HEIGHT - 60>>}

LiveClick == \E xy \in LegalClicks : MainClick(xy[1], xy[2])

LiveNext ==
    \/ NewGame
    \/ LiveClick
    \/ EndEvents
    \/ MainAI
    \/ CheckEnd
    \/ Draw

\* A click on a legal move can be accepted: a game is on, the player to
\* move is a human and has a legal move.
CanClick ==
    /\ pc = "events"
    /\ ClicksDrawn
    /\ current_player = 1 \/ choice = "1"
    /\ has_valid_moves(board, current_player)

\* The loop runs on: each step of a frame is taken (weak fairness; for
\* MainAI, which is enabled exactly when pc = "ai", it is written out with
\* that condition). A human player who can click a legal move again and
\* again eventually does (strong fairness of LiveClick, written out with
\* CanClick, the condition under which a click is accepted).
LiveSpec ==
    /\ LiveInit
    /\ [][LiveNext]_vars
    /\ WF_vars(NewGame)
    /\ WF_vars(EndEvents)
    /\ WF_vars(CheckEnd)
    /\ WF_vars(Draw)
    /\ ([]<>(pc # "ai") \/ []<><<MainAI>>_vars)
    /\ (<>[](~CanClick) \/ []<><<LiveClick>>_vars)

----------------------------------------------------------------------------
(* Properties *)

Gyms == {"gym", "othello"}
Loops == {"main", "mono"}

\* C1: for every board, in-bounds cell and player, is_valid_move is true
\* iff the cell is empty and at least one of the 8 rays has one or more
\* contiguous discs of -player immediately followed by a disc of player.
LegalitySoundness ==
    ret.op = "is_valid_move" =>
        (ret.valid <=> Legal(board, ret.row, ret.col, ret.player))

LegalityWitness ==
    /\ ret.op = "is_valid_move"
    /\ ret.valid
    /\ \E d \in 1 .. 8 : Closes(board, ret.row, ret.col, ret.player, d, 2)

\* C2: after place_disc on a legal move the board is the pre-move board with
\* the target set to player and exactly the capture set flipped, the
\* capture set being the union over the 8 directions, on the pre-move
\* board, of the opposing run closed by a disc of player.
CaptureCorrect ==
    (ret.op = "place_disc" /\ Legal(pre, call.row, call.col, call.player)) =>
        board = Captured(pre, call.row, call.col, call.player)

CaptureWitness ==
    /\ ret.op = "place_disc"
    /\ Legal(pre, call.row, call.col, call.player)
    /\ \E d1 \in 1 .. 8 : \E d2 \in 1 .. 8 :
          /\ d1 # d2
          /\ RayCaptures(pre, call.row, call.col, call.player, d1)
          /\ RayCaptures(pre, call.row, call.col, call.player, d2)

\* C3, as claimed: place_disc on a target that is_valid_move rejects, empty
\* or occupied, changes the target cell and no other cell.
IllegalTargetOneCell ==
    (/\ ret.op = "place_disc"
     /\ ~is_valid_move(pre, call.row, call.col, call.player)) =>
        /\ At(board, <<call.row, call.col>>) = call.player
        /\ \A x \in Cells :
              x # <<call.row, call.col>> => At(board, x) = At(pre, x)

\* C3, amended: place_disc on an empty target that is_valid_move rejects
\* changes the target cell to player and no other cell; on an occupied
\* target it sets the target to player and flips exactly the opposing runs
\* on the rays from the target that are closed by a disc of player.
IllegalTargetEffect ==
    ret.op = "place_disc" =>
        /\ (/\ At(pre, <<call.row, call.col>>) = 0
            /\ ~is_valid_move(pre, call.row, call.col, call.player)) =>
               board = [pre EXCEPT ![call.row + 1][call.col + 1] = call.player]
        /\ At(pre, <<call.row, call.col>>) # 0 =>
               board = Captured(pre, call.row, call.col, call.player)

IllegalTargetWitness ==
    /\ ret.op = "place_disc"
    /\ At(pre, <<call.row, call.col>>) = 0
    /\ ~is_valid_move(pre, call.row, call.col, call.player)
    /\ \E d \in 1 .. 8 :
          /\ InBounds(RayCell(call.row, call.col, d, 2)[1],
                      RayCell(call.row, call.col, d, 2)[2])
          /\ At(pre, RayCell(call.row, call.col, d, 1)) = -call.player
          /\ At(pre, RayCell(call.row, call.col, d, 2)) = -call.player

\* C4: a step of the gym environment whose decoded cell is not a legal move
\* for current_player leaves board and current_player as they were and
\* reports terminated = False.
RejectWithoutMutation ==
    [][(/\ prog \in Gyms
        /\ ret'.op = "step"
        /\ ~Legal(board, ret'.row, ret'.col, current_player)) =>
           /\ board' = board
           /\ current_player' = current_player
           /\ ~ret'.terminated]_vars

RejectWitness ==
    /\ prog \in Gyms
    /\ ret.op = "step"
    /\ ~ret.valid
    /\ moves > 0
    /\ At(board, <<ret.row, ret.col>>) = 0

\* C5: in every mode of the main loop, every call of place_disc is made
\* with a cell and player for which is_valid_move holds on the board at
\* that moment.
LegalityFilter ==
    (prog \in Loops /\ call # NoCall) =>
        Legal(pre, call.row, call.col, call.player)

\* The trained policy proposed an invalid action and white moved.
LegalityFilterWitness ==
    /\ prog = "main"
    /\ model
    /\ ret.op = "predict"
    /\ ~ret.valid
    /\ call # NoCall
    /\ call.player = -1

\* C6: in the main loop, after every accepted move by player P the player
\* to move is -P if -P has a legal move, and P otherwise.
PassProtocol ==
    [][(prog \in Loops /\ moves' = moves + 1) =>
           current_player' = IF HasLegal(board', -call'.player)
                             THEN -call'.player
                             ELSE call'.player]_vars

\* After a WHITE move BLACK has no legal move, WHITE has, and WHITE keeps
\* the turn.
PassWitness ==
    /\ prog = "main"
    /\ call.player = -1
    /\ board = Captured(pre, call.row, call.col, call.player)
    /\ current_player = -1
    /\ ~HasLegal(board, 1)
    /\ HasLegal(board, -1)

\* C7, as claimed: in the gym environment, after step accepts a move by P,
\* if -P has no legal move on the resulting board while P has, the turn
\* reverts to P.
GymPassReverts ==
    (/\ prog \in Gyms
     /\ ret.op = "step"
     /\ ret.valid
     /\ ~HasLegal(board, -ret.player)
     /\ HasLegal(board, ret.player)) =>
        current_player = ret.player

\* C8: after an accepted move the game is flagged terminal (step returns
\* terminated = True; the main loop leaves the frame with running = False)
\* iff neither player has a legal move, whether or not cells are empty.
TerminalIffNoMoves ==
    /\ (prog \in Gyms /\ ret.op = "step" /\ ret.valid) =>
           (ret.terminated <=> Terminal(board))
    /\ (prog \in Loops /\ pc = "draw") => (~running <=> Terminal(board))
    /\ (prog \in Loops /\ pc \in {"events", "ai", "check"}) => running

TerminalWitness ==
    /\ prog = "main"
    /\ pc = "draw"
    /\ ~running
    /\ moves > 0
    /\ \E x \in Cells : At(board, x) = 0

\* C9: once neither player has a legal move, no further move is accepted:
\* a step of the gym environment leaves board and current_player unchanged
\* until reset, and the main loop changes the board only by starting a new
\* game.
NoMoveAfterEnd ==
    [][(/\ (board' # board \/ moves' # moves
            \/ (prog \in Gyms /\ current_player' # current_player))
        /\ Terminal(board)) =>
           IF prog \in Gyms
           THEN ret'.op = "reset" /\ board' = init_board
           ELSE pc = "new" /\ board' = init_board /\ moves' = 0]_vars

\* A step was tried on a terminal board of the gym environment.
NoMoveAfterEndWitness ==
    /\ prog \in Gyms
    /\ Terminal(board)
    /\ ret.op = "step"
    /\ ~ret.valid

\* C10: init_board is an 8 x 8 grid with (3,3) and (4,4) WHITE, (3,4) and
\* (4,3) BLACK and the other 60 cells empty; it is the board of every game
\* in which no move was made yet.
InitialLayout ==
    (prog # "logic" /\ moves = 0) =>
        /\ Len(board) = 8
        /\ \A i \in 1 .. 8 : Len(board[i]) = 8
        /\ At(board, <<3, 3>>) = -1
        /\ At(board, <<4, 4>>) = -1
        /\ At(board, <<3, 4>>) = 1
        /\ At(board, <<4, 3>>) = 1
        /\ Cardinality({x \in (0 .. 7) \X (0 .. 7) : At(board, x) = 0}) = 60

\* The environment was reset.
InitialLayoutWitness ==
    /\ prog \in Gyms
    /\ ret.op = "reset"
    /\ moves = 0
    /\ board = init_board

\* C11: every reset of the gym environment and every start of a game in
\* the main loop, from whatever board, turn and scores precede it, leaves
\* the board on the initial layout and BLACK (+1) to move.
StartsBlackOnInitialLayout ==
    [][((prog \in Gyms /\ ret'.op = "reset")
        \/ (prog \in Loops /\ pc = "new" /\ pc' = "events")) =>
           /\ board' = init_board
           /\ current_player' = 1]_vars

\* A game was started after a finished game, which BLACK won.
NewGameAfterFinishedWitness ==
    /\ prog \in Loops
    /\ total_scores.Black > 0
    /\ pc = "events"
    /\ running
    /\ moves = 0
    /\ board = init_board
    /\ current_player = 1

\* The number of cells of b holding v, counted row by row.
RECURSIVE Occurrences(_, _, _)
Occurrences(b, v, i) ==
    IF i > Len(b) THEN 0
    ELSE Cardinality({j \in 1 .. Len(b[i]) : b[i][j] = v})
         + Occurrences(b, v, i + 1)

ValidMovesExact ==
    ret.op = "get_valid_moves" =>
        /\ \A x \in Cells :
              Cardinality({i \in 1 .. Len(ret.value) : ret.value[i] = x})
                 = IF is_valid_move(board, x[1], x[2], ret.player) THEN 1
                   ELSE 0
        /\ ret.valid <=> ret.value # << >>

\* get_valid_moves returned two cells or more, one of them in row 0.
ValidMovesWitness ==
    /\ ret.op = "get_valid_moves"
    /\ Len(ret.value) >= 2
    /\ ret.value[1][1] = 0
    /\ ret.valid

\* C15: is_valid_move, get_valid_moves, has_valid_moves, count_discs and
\* calculate_heuristic_scores leave the board passed to them as it was
\* before the call.
ReadOnlyKeepsBoard ==
    ret.op \in {"is_valid_move", "get_valid_moves", "count_discs",
                "calculate_heuristic_scores"} =>
        board = pre

\* calculate_heuristic_scores simulated two moves or more, the first of
\* them flipping a disc.
HeuristicScoresWitness ==
    /\ ret.op = "calculate_heuristic_scores"
    /\ Len(ret.value) >= 2
    /\ place_disc(pre, ret.value[1][1], ret.value[1][2], ret.player)
          # [pre EXCEPT ![ret.value[1][1] + 1][ret.value[1][2] + 1] = ret.player]

\* C14: whatever the call, place_disc changes no cell except the target and
\* opposing discs on a ray from the target that a disc of player closes: a
\* ray that meets an empty cell or the edge first has no cell changed,
\* every empty cell but the target stays empty, and no disc of player
\* changes colour.
PlaceDiscFrame ==
    ret.op = "place_disc" =>
        /\ \A x \in Cells \ {<<call.row, call.col>>} :
              At(board, x) # At(pre, x) =>
                 /\ At(pre, x) = -call.player
                 /\ At(board, x) = call.player
                 /\ \E d \in 1 .. 8 : \E k \in 1 .. BOARD_SIZE :
                       /\ x = RayCell(call.row, call.col, d, k)
                       /\ \E n \in k .. BOARD_SIZE :
                             Closes(pre, call.row, call.col, call.player, d, n)
        /\ \A d \in 1 .. 8 :
              ~RayCaptures(pre, call.row, call.col, call.player, d) =>
                 \A k \in 1 .. BOARD_SIZE :
                    LET x == RayCell(call.row, call.col, d, k)
                    IN  InBounds(x[1], x[2]) => At(board, x) = At(pre, x)

\* place_disc flipped a run in one direction while, in another direction,
\* opposing discs lie next to the target on a ray that no disc of player
\* closes.
PlaceDiscFrameWitness ==
    /\ ret.op = "place_disc"
    /\ board # [pre EXCEPT ![call.row + 1][call.col + 1] = call.player]
    /\ \E d \in 1 .. 8 :
          /\ ~RayCaptures(pre, call.row, call.col, call.player, d)
          /\ InBounds(RayCell(call.row, call.col, d, 1)[1],
                      RayCell(call.row, call.col, d, 1)[2])
          /\ At(pre, RayCell(call.row, call.col, d, 1)) = -call.player

\* C16: on the initial board BLACK at (2,3) is a legal move; place_disc
\* then flips the WHITE disc at (3,3) and nothing else, and count_discs is
\* (4, 1).
OpeningMove ==
    /\ is_valid_move(init_board, 2, 3, 1)
    /\ (moves = 1 /\ call = [row |-> 2, col |-> 3, player |-> 1]) =>
           /\ pre = init_board
           /\ board = [init_board EXCEPT ![3][4] = 1, ![4][4] = 1]
           /\ count_discs(board) = <<4, 1>>

\* The gym environment accepted BLACK at (2,3) as the first move.
OpeningMoveWitness ==
    /\ prog = "gym"
    /\ moves = 1
    /\ ret.op = "step"
    /\ ret.valid
    /\ call = [row |-> 2, col |-> 3, player |-> 1]

\* The initial board after BLACK (2,3), and after BLACK (2,3), WHITE (2,2).
Golden1 == [init_board EXCEPT ![3][4] = 1, ![4][4] = 1]
Golden2 == [Golden1 EXCEPT ![3][3] = -1, ![4][4] = -1]

\* C17, as claimed: after BLACK (2,3) and WHITE (2,2) from the initial
\* board, BLACK (2,4) passes is_valid_move as well.
GoldenSequenceAccepted ==
    (moves = 2 /\ pre = Golden1
     /\ call = [row |-> 2, col |-> 2, player |-> -1]) =>
        /\ board = Golden2
        /\ is_valid_move(board, 2, 4, 1)

\* C17, amended: from the initial board BLACK (2,3) and WHITE (2,2) are
\* accepted and give the board Golden2 with 3 discs each; BLACK (2,4) is
\* then rejected, the board and the turn staying as they are.
GoldenPrefix ==
    [][/\ (/\ prog \in Gyms /\ moves = 1 /\ board = Golden1
            /\ ret'.op = "step" /\ ret'.row = 2 /\ ret'.col = 2) =>
              /\ ret'.valid
              /\ board' = Golden2
              /\ count_discs(board') = <<3, 3>>
              /\ current_player' = 1
       /\ (/\ prog \in Gyms /\ moves = 2 /\ board = Golden2
            /\ ret'.op = "step" /\ ret'.row = 2 /\ ret'.col = 4) =>
              /\ ~ret'.valid
              /\ board' = Golden2
              /\ moves' = 2
              /\ current_player' = 1]_vars

\* BLACK (2,4) was tried as the third move of the sequence, and rejected.
GoldenPrefixWitness ==
    /\ prog \in Gyms
    /\ moves = 2
    /\ pre = Golden1
    /\ board = Golden2
    /\ ret.op = "step"
    /\ ret.row = 2
    /\ ret.col = 4
    /\ ~ret.valid

\* C18, as claimed: OthelloGymEnv.step returns reward 0 for an accepted move
\* that does not end the game, and for the move that ends it +1 if black
\* has more discs, -1 if white has more, 0 on a tie (in hundredths).
GymRewardUnit ==
    (prog = "gym" /\ ret.op = "step" /\ ret.valid) =>
        ret.reward =
            IF ~ret.terminated THEN 0
            ELSE IF Occurrences(board, 1, 1) > Occurrences(board, -1, 1)
            THEN 100
            ELSE IF Occurrences(board, -1, 1) > Occurrences(board, 1, 1)
            THEN -100
            ELSE 0

\* C19, as claimed: at the end of a game of OthelloEnv the reward is -1 if
\* current_player (as it is after the turn switch of step) has fewer discs
\* than the opponent, and 0 when the counts are equal (in hundredths).
WinnerRewardLoser ==
    (prog = "othello" /\ ret.op = "step" /\ ret.valid /\ ret.terminated) =>
        /\ Occurrences(board, current_player, 1)
              < Occurrences(board, -current_player, 1) => ret.reward = -100
        /\ Occurrences(board, current_player, 1)
              = Occurrences(board, -current_player, 1) => ret.reward = 0

\* C20: total_scores changes only when a game ends, which happens once per
\* game (the end-of-game test of a running game, left with running = False
\* or by exit; a call of end_screen), and then the colour with the
\* strictly higher disc count gains exactly one and the other nothing,
\* neither gaining on a tie; so the sum of the two never decreases and
\* grows by at most one per finished game.
ScoreKeeping ==
    [][LET ends == \/ prog \in Loops /\ pc = "check" /\ Terminal(board)
                   \/ prog = "ui" /\ ret'.op = "end_screen"
                      /\ <<pc', ret', total_scores'>> # <<pc, ret, total_scores>>
           blacks == IF prog = "ui" THEN ret'.value[1]
                     ELSE Occurrences(board, 1, 1)
           whites == IF prog = "ui" THEN ret'.value[2]
                     ELSE Occurrences(board, -1, 1)
       IN  IF ends
           THEN /\ prog \in Loops => running /\ (~running' \/ pc' = "exit")
                /\ total_scores'.Black =
                      total_scores.Black + (IF blacks > whites THEN 1 ELSE 0)
                /\ total_scores'.White =
                      total_scores.White + (IF whites > blacks THEN 1 ELSE 0)
           ELSE total_scores' = total_scores]_vars

\* A game of the main loop ended with more BLACK than WHITE discs and was
\* counted for Black.
ScoreKeepingWitness ==
    /\ prog \in Loops
    /\ pc = "draw"
    /\ ~running
    /\ Occurrences(board, 1, 1) > Occurrences(board, -1, 1)
    /\ total_scores = [Black |-> 1, White |-> 0]

\* undo.py, analyze_move_quality: "corners = [(0,0), (0,7), (7,0), (7,7)]".
corners == {<<0, 0>>, <<0, 7>>, <<7, 0>>, <<7, 7>>}

\* C21: within one game (no reset, no new game) a corner cell that holds a
\* disc holds a disc of the same colour after every step.
CornersKept ==
    [][(/\ prog \in Gyms \cup Loops
        /\ ret'.op # "reset"
        /\ pc # "new") =>
           \A x \in corners :
              At(board, x) # 0 => At(board', x) = At(board, x)]_vars

\* The opponent of the owner of corner (0,0) made an accepted move that
\* flipped a disc while the corner was held.
CornersKeptWitness ==
    /\ prog \in Gyms \cup Loops
    /\ At(pre, <<0, 0>>) # 0
    /\ call.player = -At(pre, <<0, 0>>)
    /\ board # pre
    /\ \E x \in Cells : At(pre, x) = At(pre, <<0, 0>>) /\ At(board, x) = call.player

\* C22: the key U with a non-empty history (modes 1 and 2) makes the board
\* the snapshot of the last recorded move, the turn that of the player who
\* made it and drops that entry, the recorded move being legal again; in
\* mode 1, where every move is recorded, the snapshot is the board on which
\* the last move of the game was placed. With an empty history U changes
\* nothing.
UndoRestores ==
    [][(ret'.op = "undo" /\ ret' # ret) =>
          IF choice \in {"1", "2"} /\ move_history # << >>
          THEN LET e == move_history[Len(move_history)]
               IN  /\ board' = e[1]
                   /\ current_player' = e[2]
                   /\ move_history' =
                         SubSeq(move_history, 1, Len(move_history) - 1)
                   /\ Legal(board', e[3], e[4], current_player')
                   /\ choice = "1" =>
                         /\ e[1] = pre
                         /\ call = [row |-> e[3], col |-> e[4], player |-> e[2]]
                         /\ Len(move_history) = moves
          ELSE UNCHANGED <<board, current_player, main_locals>>]_vars

\* The second or a later move of a game was undone.
UndoRestoresWitness ==
    /\ pc = "raised"
    /\ ret.op = "undo"
    /\ ret.valid
    /\ move_history # << >>
    /\ board # init_board

\* C23: MoveHistory is a stack. add_move puts its entry on top; can_undo
\* is true iff more add_move than successful undo calls were made; undo
\* removes and returns the top entry; get_last_move returns it and leaves
\* the history as it is; on an empty history both return None and leave it
\* empty; clear empties it.
StackDiscipline ==
    [][LET h == move_history
           top == h[Len(h)]
           below == SubSeq(h, 1, Len(h) - 1)
       IN  /\ ret'.op = "add_move" =>
                 move_history' = h \o <<ret'.value>>
           /\ ret'.op = "can_undo" =>
                 /\ ret'.valid <=> tally.add > tally.undo
                 /\ move_history' = h
           /\ ret'.op = "undo" =>
                 IF h = << >>
                 THEN ret'.value = None /\ move_history' = << >>
                 ELSE ret'.value = top /\ move_history' = below
           /\ ret'.op = "get_last_move" =>
                 /\ ret'.value = IF h = << >> THEN None ELSE top
                 /\ move_history' = h
           /\ ret'.op = "clear" => move_history' = << >>
           /\ Len(move_history') = tally'.add - tally'.undo]_vars

\* Two entries were added, the second undone, and undo then returned the
\* first.
StackDisciplineWitness ==
    /\ prog = "history"
    /\ ret.op = "undo"
    /\ ret.value = <<init_board, 1, 2, 3>>
    /\ tally = [add |-> 2, undo |-> 2]
    /\ move_history = << >>

\* C24, as claimed: when a move is undone in the main loop (modes 1 and 2)
\* the analysis shown reports the number of opponent discs that the undone
\* move flipped on the board it was played on.
UndoAnalysisReports ==
    (prog = "main" /\ ret.op = "undo" /\ ret.valid) =>
        ret.value =
            <<Cardinality(CaptureSet(board, ret.row, ret.col, ret.player))>>

\* C25, as claimed: whenever the main loop draws with a heatmap surface
\* cached, heatmap_board_hash is the bytes of the board drawn.
HeatmapFresh ==
    (prog = "main" /\ pc = "draw" /\ heatmap_surface # None) =>
        heatmap_board_hash = tobytes(board)

\* C26: for every click at a pixel of the window that passes the test
\* y < HEIGHT - 60, and for every action index of the action space decoded
\* by divmod, the row and the column handed on are in 0 .. BOARD_SIZE - 1.
CoordsInBounds ==
    /\ (ret.op = "click" /\ ret.valid) => InBounds(ret.row, ret.col)
    /\ ret.op = "divmod" => InBounds(ret.row, ret.col)

\* The click at the last pixel of the grid, which is in the last cell.
CoordsInBoundsWitness ==
    /\ ret.op = "click"
    /\ ret.valid
    /\ ret.value = <<WIDTH - 1, HEIGHT - 61>>
    /\ ret.row = BOARD_SIZE - 1
    /\ ret.col = BOARD_SIZE - 1

\* The number of cells of b holding v.
Holding(b, v) == Cardinality({x \in Cells : At(b, x) = v})

\* C27: every accepted move of player P flips k >= 1 opposing discs: P's
\* count grows by k + 1 and the opponent's falls by k, no occupied cell
\* becomes empty, every cell holds -1, 0 or 1, and the number of occupied
\* cells is 4 plus the number of moves accepted in the game.
DiscConservation ==
    [][(prog \in Gyms \cup Loops /\ moves' = moves + 1) =>
          \E P \in {call'.player} :
          \E own \in {Holding(board, P)} :
          \E opp \in {Holding(board, -P)} :
          \E own_after \in {Holding(board', P)} :
          \E opp_after \in {Holding(board', -P)} :
          \E k \in {own_after - own - 1} :
              /\ k >= 1
              /\ opp_after = opp - k
              /\ \A x \in Cells : At(board, x) # 0 => At(board', x) # 0
              /\ \A x \in Cells : At(board', x) \in {-1, 0, 1}
              /\ own + opp = 4 + moves
              /\ own_after + opp_after = 4 + moves']_vars

\* The third or a later move of a game flipped two discs or more.
DiscConservationWitness ==
    /\ prog \in Gyms \cup Loops
    /\ moves >= 3
    /\ Occurrences(board, call.player, 1)
          >= Occurrences(pre, call.player, 1) + 3

\* C28: every game of the main loop (no undo) ends: at most
\* BOARD_SIZE * BOARD_SIZE - 4 moves are accepted in a game, and while the
\* players go on playing legal moves the loop reaches the game-over branch
\* (end_screen, then running = False or exit).
GameEnds ==
    /\ [](moves <= BOARD_SIZE * BOARD_SIZE - 4)
    /\ (running /\ ClicksDrawn /\ pc # "exit") ~> (~running \/ pc = "exit")

\* A game was played until neither player had a move, after more than 50
\* accepted moves.
GameEndsWitness ==
    /\ draws = "legal"
    /\ ~running
    /\ GameOver(board)
    /\ moves > 50

====
